---- MODULE Spec2Model ----
(***************************************************************************)
(* Visual Health E-commerce Hub backend (src/main.py, src/schemas.py).     *)
(* The handlers are modelled as actions over the document store's          *)
(* collections.  Strings whose characters matter (wilaya names, which the  *)
(* code feeds to a regular expression) are sequences of one-character      *)
(* strings; all other strings are opaque values.                           *)
(***************************************************************************)
EXTENDS Integers, Sequences, FiniteSets, TLC

VARIABLES
    deliveryfee,   \* db["deliveryfee"]: sequence of documents, insertion order
    product,       \* db["product"]
    order,         \* db["order"]
    user,          \* db["user"]
    now,           \* the clock read by now_utc() / the store's timestamps
    reg,           \* in-flight register requests: position and locals
    last           \* the HTTP response to the last request handled (with the
                   \* request itself for the read-only list_products)

vars == <<deliveryfee, product, order, user, now, reg, last>>

(***************************************************************************)
(* Bounds of the model.                                                    *)
(***************************************************************************)
MaxClock == 4        \* timestamps the store hands out: documents and updates
MaxAddresses == 3    \* addresses pushed to one user
NumClients == 2      \* register requests in flight at once

None == "None"

(***************************************************************************)
(* Generic helpers.                                                        *)
(***************************************************************************)
Min(S) == CHOOSE m \in S : \A n \in S : m <= n

\* A filter is applied by its callers as the set of positions of the
\* documents it matches ("hits").
\* pymongo find_one: the first document, in natural order, matching the
\* filter, as a set of at most one document (the empty set is Python's None).
FindOne(coll, hits) == IF hits = {} THEN {} ELSE {coll[Min(hits)]}

\* The document find_one returned.
TheDoc(found) == CHOOSE d \in found : TRUE

\* pymongo find: the matching documents, in natural order.
Find(coll, hits) ==
    LET upto[i \in 0..Len(coll)] ==
            IF i = 0 THEN <<>>
            ELSE IF i \in hits THEN Append(upto[i - 1], coll[i]) ELSE upto[i - 1]
    IN  upto[Len(coll)]

(***************************************************************************)
(* Characters and the case-insensitive regular expression of               *)
(* {"$regex": f"^{wilaya}$", "$options": "i"}.                             *)
(***************************************************************************)
UpperChars == <<"A","B","C","D","E","F","G","H","I","J","K","L","M",
                "N","O","P","Q","R","S","T","U","V","W","X","Y","Z">>
LowerChars == <<"a","b","c","d","e","f","g","h","i","j","k","l","m",
                "n","o","p","q","r","s","t","u","v","w","x","y","z">>

FoldTable ==
    [c \in {UpperChars[i] : i \in DOMAIN UpperChars} |->
        LowerChars[CHOOSE i \in DOMAIN UpperChars : UpperChars[i] = c]]

\* Case folding of one character (option "i").
Fold(c) == IF c \in DOMAIN FoldTable THEN FoldTable[c] ELSE c

FoldStr(s) == [i \in DOMAIN s |-> Fold(s[i])]

\* Equality of two strings ignoring case.
EqualsIgnoreCase(s, t) == FoldStr(s) = FoldStr(t)

\* One pattern character against one subject character: "." matches any
\* character, anything else matches itself up to case.
CharMatch(pc, c) == pc = "." \/ Fold(pc) = Fold(c)

\* Anchored match of pattern p (from position i) against s (from position j),
\* for the metacharacters "." and "*" and literal characters.  Every "*" of p
\* follows an item it repeats (the engine compiles no other pattern).
RECURSIVE RegexMatchFrom(_, _, _, _)
RegexMatchFrom(p, i, s, j) ==
    IF i > Len(p) THEN j > Len(s)
    ELSE IF i + 1 <= Len(p) /\ p[i + 1] = "*"
         THEN IF RegexMatchFrom(p, i + 2, s, j) THEN TRUE
              ELSE IF j <= Len(s) /\ CharMatch(p[i], s[j])
                   THEN RegexMatchFrom(p, i, s, j + 1)
                   ELSE FALSE
         ELSE IF j <= Len(s) /\ CharMatch(p[i], s[j])
              THEN RegexMatchFrom(p, i + 1, s, j + 1)
              ELSE FALSE

\* The filter {"wilaya": {"$regex": "^" + wilaya + "$", "$options": "i"}}.
WilayaRegexMatch(wilaya, doc) == RegexMatchFrom(wilaya, 1, doc.wilaya, 1)

(***************************************************************************)
(* Identifiers.  The store assigns each document of a collection a fresh   *)
(* ObjectId; a client sends an identifier as a string, which is either the *)
(* 24-digit hexadecimal form of an ObjectId or not.                        *)
(***************************************************************************)
Hex(n) == [wellformed |-> TRUE, n |-> n]
NotHex == [wellformed |-> FALSE, n |-> 0]

\* bson.ObjectId(s): raises InvalidId unless s is a well-formed identifier.
ObjectIdValid(s) == s.wellformed

\* The filter {"_id": ObjectId(s)}.
IdMatch(s, doc) == doc.id = s.n

(***************************************************************************)
(* database.create_document: stamps the document, inserts it and returns   *)
(* the identifier the store generated.                                     *)
(***************************************************************************)
NewId(coll) == Len(coll) + 1

create_document(coll, data, t) ==
    Append(coll, data @@ [id |-> NewId(coll), created_at |-> t, updated_at |-> t])

\* pymongo update_one: the first matching document replaced by its changed
\* version (changed[i] is the update applied to coll[i]).
UpdateOne(coll, hits, changed) ==
    IF hits = {} THEN coll
    ELSE [coll EXCEPT ![Min(hits)] = changed[Min(hits)]]

\* UpdateResult.matched_count of update_one.
MatchedCount(hits) == IF hits = {} THEN 0 ELSE 1

(***************************************************************************)
(* admin_seed: the delivery fees and the sample products.                  *)
(***************************************************************************)
fees == <<
    [wilaya |-> <<"A","l","g","e","r">>, fee |-> 400],
    [wilaya |-> <<"O","r","a","n">>, fee |-> 500],
    [wilaya |-> <<"B","l","i","d","a">>, fee |-> 450],
    [wilaya |-> <<"C","o","n","s","t","a","n","t","i","n","e">>, fee |-> 600],
    [wilaya |-> <<"T","i","z","i"," ","O","u","z","o","u">>, fee |-> 550],
    [wilaya |-> <<"A","n","n","a","b","a">>, fee |-> 600],
    [wilaya |-> <<"S","é","t","i","f">>, fee |-> 550],
    [wilaya |-> <<"B","é","j","a","ï","a">>, fee |-> 600],
    [wilaya |-> <<"T","l","e","m","c","e","n">>, fee |-> 600],
    [wilaya |-> <<"M","o","s","t","a","g","a","n","e","m">>, fee |-> 600] >>

sample_products == <<
    [title |-> "Lentilles journalières FreshLook", price |-> 2500, brand |-> "FreshLook",
     category |-> "lentilles", color |-> "vert", frame_shape |-> None, type |-> None],
    [title |-> "Solution d'entretien MultiPlus 360ml", price |-> 1200, brand |-> "Bausch & Lomb",
     category |-> "solutions", color |-> None, frame_shape |-> None, type |-> None],
    [title |-> "Lunettes médicales Classic Noir", price |-> 8000, brand |-> "OptiCare",
     category |-> "lunettes_medicales", color |-> None, frame_shape |-> "rect", type |-> None],
    [title |-> "Lunettes de soleil Aviator", price |-> 9000, brand |-> "RayBest",
     category |-> "lunettes_soleil", color |-> None, frame_shape |-> "pilot", type |-> None] >>

\* The loop "find_one on the key; create_document when there is none".
RECURSIVE SeedInto(_, _, _, _)
SeedInto(coll, docs, key, t) ==
    IF docs = <<>> THEN coll
    ELSE LET d == Head(docs)
             exists == \E i \in DOMAIN coll : coll[i][key] = d[key]
         IN  SeedInto(IF exists THEN coll ELSE create_document(coll, d, t),
                      Tail(docs), key, t)

admin_seed ==
    /\ now < MaxClock
    /\ deliveryfee' = SeedInto(deliveryfee, fees, "wilaya", now)
    /\ product' = SeedInto(product, sample_products, "title", now)
    /\ now' = IF deliveryfee' = deliveryfee /\ product' = product THEN now ELSE now + 1
    /\ last' = [op |-> "admin_seed", code |-> 200,
                body |-> [products |-> Len(product') - Len(product),
                          delivery_fees |-> Len(deliveryfee') - Len(deliveryfee)]]
    /\ UNCHANGED <<order, user, reg>>

(***************************************************************************)
(* Checkout and orders.                                                    *)
(***************************************************************************)
\* sum([it.price * it.quantity for it in payload.items])
RECURSIVE Subtotal(_)
Subtotal(items) ==
    IF items = <<>> THEN 0
    ELSE Head(items).price * Head(items).quantity + Subtotal(Tail(items))

\* Mutant of OrderTotal: the delivery fee left out of the total.
OrderTotal_FeeDropped(subtotal, delivery_fee) == subtotal

\* total = float(subtotal + delivery_fee)
OrderTotal(subtotal, delivery_fee) == subtotal + delivery_fee

\* Order(...): the document built from the request and the computed amounts,
\* with the schema's default status.
NewOrder(payload, subtotal, delivery_fee, total) ==
    [user_id |-> payload.user_id, items |-> payload.items,
     address |-> payload.address, wilaya |-> payload.wilaya,
     subtotal |-> subtotal, delivery_fee |-> delivery_fee, total |-> total,
     status |-> "en_preparation"]

\* The fee lookup either matches no document (HTTPException 400) or yields
\* the first matching document, whose fee the order is built with.
checkout(payload) ==
    LET subtotal == Subtotal(payload.items)
        hits == {i \in DOMAIN deliveryfee :
                    WilayaRegexMatch(payload.wilaya, deliveryfee[i])}
        fee_doc == FindOne(deliveryfee, hits)
    IN  /\ IF fee_doc = {}
           THEN /\ last' = [op |-> "checkout", code |-> 400]
                /\ UNCHANGED <<order, now>>
           ELSE LET delivery_fee == TheDoc(fee_doc).fee
                    total == OrderTotal(subtotal, delivery_fee)
                IN  /\ now < MaxClock
                    /\ order' = create_document(order,
                                    NewOrder(payload, subtotal, delivery_fee, total), now)
                    /\ now' = now + 1
                    /\ last' = [op |-> "checkout", code |-> 200,
                                body |-> [order_id |-> NewId(order), total |-> total,
                                          delivery_fee |-> delivery_fee]]
        /\ UNCHANGED <<deliveryfee, product, user, reg>>

\* allowed = {"en_preparation", "expediee", "en_cours_de_livraison", "livree"}
allowed == {"en_preparation", "expediee", "en_cours_de_livraison", "livree"}

\* Position of a status in the lifecycle en_preparation -> ... -> livree.
StatusRank(status) ==
    CASE status = "en_preparation" -> 1
      [] status = "expediee" -> 2
      [] status = "en_cours_de_livraison" -> 3
      [] OTHER -> 4

\* Mutant of SetStatus: the update applied only when it moves the order forward.
SetStatus_ForwardOnly(doc, status, t) ==
    IF StatusRank(status) > StatusRank(doc.status)
    THEN [doc EXCEPT !.status = status, !.updated_at = t]
    ELSE doc

\* {"$set": {"status": payload.status, "updated_at": now_utc()}}
SetStatus(doc, status, t) == [doc EXCEPT !.status = status, !.updated_at = t]

\* Mutant of StatusRejected: the identifier parsed before the status is checked.
StatusRejected_IdFirst(order_id, status) ==
    ObjectIdValid(order_id) /\ status \notin allowed

\* The guard of line 351: the status is checked before the identifier is parsed.
StatusRejected(order_id, status) == status \notin allowed

update_order_status(order_id, status) ==
    LET hits == {i \in DOMAIN order : IdMatch(order_id, order[i])}
        changed == [i \in hits |-> SetStatus(order[i], status, now)]
    IN  /\ IF StatusRejected(order_id, status)
           THEN /\ last' = [op |-> "update_order_status", code |-> 400]
                /\ UNCHANGED <<order, now>>
           ELSE IF ~ObjectIdValid(order_id)
           THEN /\ last' = [op |-> "update_order_status", code |-> 500]
                /\ UNCHANGED <<order, now>>
           ELSE IF MatchedCount(hits) = 0
           THEN /\ last' = [op |-> "update_order_status", code |-> 404]
                /\ UNCHANGED <<order, now>>
           ELSE /\ now < MaxClock
                /\ order' = UpdateOne(order, hits, changed)
                /\ now' = now + 1
                /\ last' = [op |-> "update_order_status", code |-> 200,
                            body |-> [updated |-> TRUE]]
        /\ UNCHANGED <<deliveryfee, product, user, reg>>

(***************************************************************************)
(* The requests clients send to the order endpoints.                       *)
(***************************************************************************)
UserIdInputs == {"u1"}

AddressInputs ==
    {[label |-> "Home", full_name |-> "A", phone |-> "0550", wilaya |-> "Alger",
      commune |-> None, street |-> "1 rue A", notes |-> None]}

lens1 == [product_id |-> "p1", title |-> "Lentilles", price |-> 2500, quantity |-> 1]
lens2 == [product_id |-> "p1", title |-> "Lentilles", price |-> 2500, quantity |-> 2]
solution1 == [product_id |-> "p2", title |-> "Solution", price |-> 1200, quantity |-> 1]
ItemInputs == {<<lens1>>, <<lens2, solution1>>}

RegionInputs ==
    { <<"a","l","g","e","r">>, <<"O","R","A","N">>,           \* seeded, up to case
      <<"P","a","r","i","s">>, <<"A","l","g","e">>,           \* not seeded
      <<".","*">> }                                           \* regex metacharacters

CheckoutInputs ==
    [user_id : UserIdInputs, items : ItemInputs, address : AddressInputs,
     wilaya : RegionInputs]

OrderIdInputs == {Hex(n) : n \in 1..(MaxClock - 1)} \cup {NotHex}

StatusInputs == allowed \cup {"shipped"}

(***************************************************************************)
(* Initial state: empty collections.                                       *)
(***************************************************************************)
Idle == [pc |-> "idle"]

Init ==
    /\ deliveryfee = <<>>
    /\ product = <<>>
    /\ order = <<>>
    /\ user = <<>>
    /\ now = 0
    /\ reg = [c \in 1..NumClients |-> Idle]
    /\ last = [op |-> "none", code |-> 0]

\* The order endpoints, with the seed that provides the delivery fees.
Next ==
    \/ admin_seed
    \/ \E payload \in CheckoutInputs : checkout(payload)
    \/ \E order_id \in OrderIdInputs, status \in StatusInputs :
           update_order_status(order_id, status)

Spec == Init /\ [][Next]_vars

(***************************************************************************)
(* Properties of the order endpoints.                                      *)
(***************************************************************************)
\* Some stored delivery fee has this region as its wilaya, ignoring case.
FeeKnown(wilaya) ==
    \E i \in DOMAIN deliveryfee : EqualsIgnoreCase(wilaya, deliveryfee[i].wilaya)

\* An order document carries this identifier.
OrderKnown(order_id) ==
    ObjectIdValid(order_id) /\ \E i \in DOMAIN order : IdMatch(order_id, order[i])

\* C1: every persisted order satisfies total = subtotal + delivery_fee, after
\* any sequence of checkout and update_order_status requests.
C1_TotalIsSubtotalPlusFee ==
    \A i \in DOMAIN order :
        order[i].total = order[i].subtotal + order[i].delivery_fee

\* An order with two items and a positive fee whose status has been updated.
C1_Witness ==
    \E i \in DOMAIN order :
        /\ Len(order[i].items) = 2
        /\ order[i].delivery_fee > 0
        /\ order[i].status = "expediee"

\* C2: a checkout whose region equals, ignoring case, the wilaya of no stored
\* delivery fee fails with 400 and leaves the order collection unchanged.
C2_UnknownRegionRejected ==
    [][\A payload \in CheckoutInputs :
          (checkout(payload) /\ ~FeeKnown(payload.wilaya))
              => (last'.code = 400 /\ order' = order)]_vars

\* C4: an update_order_status request whose status is not one of the four
\* allowed values is rejected with 400 for every order identifier, and no
\* order's status or updated_at changes.
C4_InvalidStatusRejected ==
    [][\A order_id \in OrderIdInputs, status \in StatusInputs \ allowed :
          update_order_status(order_id, status)
              => (last'.code = 400 /\ order' = order)]_vars

\* An invalid status was rejected while an order stood at a later stage.
C4_Witness ==
    /\ last.op = "update_order_status"
    /\ last.code = 400
    /\ \E i \in DOMAIN order : order[i].status = "livree"

\* C5: for an existing order, every allowed status is accepted whatever the
\* current status is, and the stored status becomes the requested one.
C5_AnyAllowedStatusAccepted ==
    [][\A order_id \in OrderIdInputs, status \in allowed :
          (update_order_status(order_id, status) /\ OrderKnown(order_id))
              => /\ last'.code = 200
                 /\ \A i \in DOMAIN order :
                        IdMatch(order_id, order[i]) => order'[i].status = status]_vars

\* The only order went from en_preparation directly to livree: it was updated
\* exactly once, by the request just answered.
C5_Witness ==
    /\ last.op = "update_order_status"
    /\ last.code = 200
    /\ Len(order) = 1
    /\ order[1].status = "livree"
    /\ order[1].updated_at = order[1].created_at + 1

\* C6: a successful checkout persists exactly one new order built from the
\* request: subtotal the sum of price x quantity, delivery_fee the fee of the
\* delivery fee whose wilaya is the region ignoring case, status
\* en_preparation, the request's items and address; the response repeats the
\* persisted total and delivery_fee.
C6_CheckoutPersistsOrder ==
    [][\A payload \in CheckoutInputs :
          (checkout(payload) /\ last'.code = 200)
              => /\ Len(order') = Len(order) + 1
                 /\ SubSeq(order', 1, Len(order)) = order
                 /\ LET o == order'[Len(order')]
                    IN  /\ o.subtotal = Subtotal(payload.items)
                        /\ \E i \in DOMAIN deliveryfee :
                               /\ EqualsIgnoreCase(payload.wilaya, deliveryfee[i].wilaya)
                               /\ o.delivery_fee = deliveryfee[i].fee
                        /\ o.status = "en_preparation"
                        /\ o.items = payload.items
                        /\ o.address = payload.address
                        /\ last'.body.total = o.total
                        /\ last'.body.delivery_fee = o.delivery_fee]_vars

\* C8: update_order_status changes at most the order whose identifier
\* matches, and of it only status and updated_at; a valid status sent for an
\* identifier that matches no order is rejected with 404 and changes nothing.
C8_StatusUpdateFrame ==
    [][\A order_id \in OrderIdInputs, status \in StatusInputs :
          update_order_status(order_id, status)
              => /\ Len(order') = Len(order)
                 /\ \A i \in DOMAIN order :
                        /\ ~IdMatch(order_id, order[i]) => order'[i] = order[i]
                        /\ [order'[i] EXCEPT !.status = order[i].status,
                                             !.updated_at = order[i].updated_at]
                               = order[i]
                 /\ (status \in allowed /\ ~OrderKnown(order_id))
                        => (last'.code = 404 /\ order' = order)]_vars

(***************************************************************************)
(* Registration and the user's addresses.                                  *)
(***************************************************************************)
\* hashlib.sha256(pw).hexdigest(): a digest, distinct from its input and
\* distinct for distinct inputs.
hash_password(pw) == <<"sha256", pw>>

\* Mutant of EmailMatch: the pre-check filters on the wrong field.
EmailMatch_ByName(email, doc) == doc.name = email

\* The filter {"email": payload.email}.
EmailMatch(email, doc) == doc.email = email

\* User(name=..., email=..., password_hash=...), with the schema's defaults.
NewUser(payload) ==
    [name |-> payload.name, email |-> payload.email,
     password_hash |-> hash_password(payload.password),
     phone |-> None, addresses |-> <<>>]

\* register, line 161: the existence pre-check, a store read of its own.
register_find(c, payload) ==
    LET hits == {i \in DOMAIN user : EmailMatch(payload.email, user[i])}
    IN  /\ reg[c].pc = "idle"
        /\ reg' = [reg EXCEPT ![c] = [pc |-> "checked", payload |-> payload,
                                      existing |-> FindOne(user, hits) # {}]]
        /\ UNCHANGED <<deliveryfee, product, order, user, now, last>>

\* register, lines 162-167: the conflict error, or the insert and the answer.
register_create(c) ==
    /\ reg[c].pc = "checked"
    /\ IF reg[c].existing
       THEN /\ last' = [op |-> "register", code |-> 400]
            /\ UNCHANGED <<user, now>>
       ELSE /\ now < MaxClock
            /\ user' = create_document(user, NewUser(reg[c].payload), now)
            /\ now' = now + 1
            /\ last' = [op |-> "register", code |-> 200,
                        body |-> [user_id |-> NewId(user),
                                  token |-> hash_password(<<reg[c].payload.email,
                                                            reg[c].payload.password>>)]]
    /\ reg' = [reg EXCEPT ![c] = Idle]
    /\ UNCHANGED <<deliveryfee, product, order>>

\* {"$push": {"addresses": addr.model_dump()}}
PushAddress(doc, addr) == [doc EXCEPT !.addresses = Append(@, addr)]

\* {"$pull": {"addresses": {"label": label}}}
PullAddress(doc, label) ==
    LET Keep(a) == a.label # label
    IN  [doc EXCEPT !.addresses = SelectSeq(@, Keep)]

add_address(user_id, addr) ==
    LET hits == {i \in DOMAIN user : IdMatch(user_id, user[i])}
        changed == [i \in hits |-> PushAddress(user[i], addr)]
    IN  /\ IF ~ObjectIdValid(user_id)
           THEN /\ last' = [op |-> "add_address", code |-> 500]
                /\ UNCHANGED user
           ELSE IF MatchedCount(hits) = 0
           THEN /\ last' = [op |-> "add_address", code |-> 404]
                /\ UNCHANGED user
           ELSE /\ Len(user[Min(hits)].addresses) < MaxAddresses
                /\ user' = UpdateOne(user, hits, changed)
                /\ last' = [op |-> "add_address", code |-> 200,
                            body |-> [added |-> TRUE]]
        /\ UNCHANGED <<deliveryfee, product, order, now, reg>>

delete_address(user_id, label) ==
    LET hits == {i \in DOMAIN user : IdMatch(user_id, user[i])}
        changed == [i \in hits |-> PullAddress(user[i], label)]
    IN  /\ IF ~ObjectIdValid(user_id)
           THEN /\ last' = [op |-> "delete_address", code |-> 500]
                /\ UNCHANGED user
           ELSE /\ user' = UpdateOne(user, hits, changed)
                /\ last' = [op |-> "delete_address", code |-> 200,
                            body |-> [deleted |-> user' # user]]
        /\ UNCHANGED <<deliveryfee, product, order, now, reg>>

(***************************************************************************)
(* The requests clients send to the user endpoints.                        *)
(***************************************************************************)
RegisterInputs ==
    [name : {"Amine"}, email : {"a@example.dz", "b@example.dz"}, password : {"pw"}]

home1 == [label |-> "Home", full_name |-> "A", phone |-> "0550", wilaya |-> "Alger",
          commune |-> None, street |-> "1 rue A", notes |-> None]
home2 == [label |-> "Home", full_name |-> "A", phone |-> "0550", wilaya |-> "Oran",
          commune |-> None, street |-> "2 rue B", notes |-> None]
office == [label |-> "Office", full_name |-> "A", phone |-> "0550", wilaya |-> "Alger",
           commune |-> None, street |-> "3 rue C", notes |-> None]

UserAddressInputs == {home1, home2, office}

LabelInputs == {"Home", "Office", "Other"}

UserRefInputs == {Hex(1), Hex(2), Hex(3), NotHex}

\* The user endpoints, register requests handled one after another: a
\* request starts only when no other is in flight.
NextUsers ==
    \/ \E payload \in RegisterInputs :
           /\ \A c \in DOMAIN reg : reg[c].pc = "idle"
           /\ register_find(1, payload)
    \/ register_create(1)
    \/ \E user_id \in UserRefInputs, addr \in UserAddressInputs :
           add_address(user_id, addr)
    \/ \E user_id \in UserRefInputs, label \in LabelInputs :
           delete_address(user_id, label)

SpecUsers == Init /\ [][NextUsers]_vars

\* Register requests of several clients, the pre-check and the insert of each
\* interleaved with the others' (the handlers run on a thread pool).
NextRace ==
    \/ \E c \in DOMAIN reg, payload \in RegisterInputs : register_find(c, payload)
    \/ \E c \in DOMAIN reg : register_create(c)

SpecRace == Init /\ [][NextRace]_vars

(***************************************************************************)
(* Catalogue: create_product and list_products.  An optional string        *)
(* parameter is None or a string; an optional number is the empty set      *)
(* (None) or the set of the number.                                        *)
(***************************************************************************)
\* Python's truth value of an Optional[str]: None and "" are false.
Truthy(x) == x # None /\ x # ""

\* filt, lines 243-260 (q is not supplied), applied to one document.
ProductFilter(params, doc) ==
    /\ Truthy(params.category) => doc.category = params.category
    /\ Truthy(params.brand) => doc.brand = params.brand
    /\ Truthy(params.color) => doc.color = params.color
    /\ Truthy(params.frame_shape) => doc.frame_shape = params.frame_shape
    /\ Truthy(params.type) => doc.type = params.type
    /\ \A m \in params.price_min : doc.price >= m
    /\ \A m \in params.price_max : doc.price <= m

\* Cursor.limit(n): the first n documents; 0 is no limit, and a negative n
\* is the limit -n.
Limit(docs, n) ==
    IF n = 0 THEN docs
    ELSE LET k == IF n < 0 THEN 0 - n ELSE n
         IN  SubSeq(docs, 1, IF Len(docs) < k THEN Len(docs) ELSE k)

list_products(params) ==
    LET hits == {i \in DOMAIN product : ProductFilter(params, product[i])}
        items == Limit(Find(product, hits), params.limit)
    IN  /\ last' = [op |-> "list_products", req |-> params, code |-> 200,
                    body |-> items]
        /\ UNCHANGED <<deliveryfee, product, order, user, now, reg>>

create_product(p) ==
    /\ now < MaxClock
    /\ product' = create_document(product, p, now)
    /\ now' = now + 1
    /\ last' = [op |-> "create_product", code |-> 200, body |-> [id |-> NewId(product)]]
    /\ UNCHANGED <<deliveryfee, order, user, reg>>

(***************************************************************************)
(* The requests clients send to the catalogue endpoints.                   *)
(***************************************************************************)
ProductInputs ==
    { [title |-> "Lentilles mensuelles", price |-> 1000, brand |-> "FreshLook",
       category |-> "lentilles", color |-> "bleu", frame_shape |-> None, type |-> "souple"],
      [title |-> "Monture Titane", price |-> 5000, brand |-> None,
       category |-> "lunettes_medicales", color |-> None, frame_shape |-> "rect",
       type |-> None] }

ListInputs ==
    [category : {None, "", "lentilles"}, brand : {None, "FreshLook"},
     color : {None}, frame_shape : {None}, type : {None},
     price_min : {{}, {0}, {1000}}, price_max : {{}, {5000}},
     limit : {50, 2, 0}]

NextCatalogue ==
    \/ admin_seed
    \/ \E p \in ProductInputs : create_product(p)
    \/ \E params \in ListInputs : list_products(params)

SpecCatalogue == Init /\ [][NextCatalogue]_vars

\* A filter parameter was provided: the request carried a value for it.
Provided(x) == x # None

\* C7: list_products returns only stored products that satisfy every provided
\* filter (equality on category, brand, color, frame_shape and type,
\* price_min <= price <= price_max, bounds inclusive), and at most limit of
\* them.
C7_ListReturnsOnlyMatching ==
    last.op = "list_products" =>
        /\ \A k \in DOMAIN last.body :
               LET doc == last.body[k]
                   params == last.req
               IN  /\ \E i \in DOMAIN product : product[i] = doc
                   /\ Provided(params.category) => doc.category = params.category
                   /\ Provided(params.brand) => doc.brand = params.brand
                   /\ Provided(params.color) => doc.color = params.color
                   /\ Provided(params.frame_shape) => doc.frame_shape = params.frame_shape
                   /\ Provided(params.type) => doc.type = params.type
                   /\ \A m \in params.price_min : doc.price >= m
                   /\ \A m \in params.price_max : doc.price <= m
        /\ Len(last.body) <= last.req.limit

(***************************************************************************)
(* Properties of the user endpoints.                                       *)
(***************************************************************************)
\* The user documents holding this email.
UsersWithEmail(coll, email) == {i \in DOMAIN coll : coll[i].email = email}

\* C3: with register requests handled one after another, a request whose
\* email a stored user already has fails with 400 and inserts nothing, any
\* other inserts one user, and every email is held by at most one user and
\* the request's email by exactly one.
C3_SequentialRegisterUnique ==
    [][register_create(1) =>
          /\ IF UsersWithEmail(user, reg[1].payload.email) # {}
             THEN last'.code = 400 /\ user' = user
             ELSE last'.code = 200 /\ Len(user') = Len(user) + 1
          /\ Cardinality(UsersWithEmail(user', reg[1].payload.email)) = 1
          /\ \A e \in {p.email : p \in RegisterInputs} :
                 Cardinality(UsersWithEmail(user', e)) <= 1]_vars

\* A second registration of a stored email was refused, with two users stored.
C3_Witness ==
    /\ last.op = "register"
    /\ last.code = 400
    /\ Len(user) = 2
    /\ reg[1].pc = "idle"

\* C9: no two user documents hold the same email, in every reachable state of
\* interleaved register requests.
C9_EmailsUnique ==
    \A i, j \in DOMAIN user : user[i].email = user[j].email => i = j

\* C10: no two addresses of a user have the same label.
C10_LabelsUnique ==
    \A u \in DOMAIN user :
        \A i, j \in DOMAIN user[u].addresses :
            user[u].addresses[i].label = user[u].addresses[j].label => i = j

====
